---- MODULE Spec2Model ----
(***************************************************************************)
(* Parent-side postMessage bridge of @venyu/embed (messaging.ts): the      *)
(* ready/init handshake, the message router, the auth-popup coordinator    *)
(* and destroy.  Handlers are pure operators on a "world" record W (the    *)
(* closure state of createMessagingBridge plus the DOM objects it uses);   *)
(* every action of the state machine applies one whole handler, including  *)
(* whatever a consumer callback does re-entrantly inside it.               *)
(***************************************************************************)
EXTENDS Integers, Sequences, FiniteSets, TLC

VARIABLES
    state,                \* MessagingState: nonce, popup, handshakeComplete, destroyed
    popupPollIntervalId,  \* id of the live popup poll, or NoTimer
    readyPromise,         \* the readiness promise: status and rejection reason
    listening,            \* TRUE while handleMessage is registered on window
    iframe,               \* the iframe element: contentWindow, style.height
    popups,               \* every popup window ever created: "unopened", "open", "closed"
    timers,               \* live setInterval timers, each the popup its callback captured
    playUrl,              \* config.playUrl
    out,                  \* effects of the last step, in program order
    hist,                 \* saturating counts of effects over the whole run
    last,                 \* the last step: operation, input, state before it
    init,                 \* the init() call that owns the bridge, if one does
    other                 \* a second bridge on the same page, if there is one

vars == <<state, popupPollIntervalId, readyPromise, listening, iframe, popups,
          timers, playUrl, out, hist, last, init, other>>

-----------------------------------------------------------------------------
(* Bounds of the model *)

MaxPopups == 2
MaxCount == 2

-----------------------------------------------------------------------------
(* JavaScript values.  A string is a sequence of segments, so that          *)
(* startsWith and length are computed; a number is a rational num/den,      *)
(* den > 0, and NaN is 0/0.                                                 *)

Undefined == [t |-> "undefined"]
JNull == [t |-> "null"]
Str(s) == [t |-> "string", s |-> s]
Rat(a, b) == [t |-> "number", num |-> a, den |-> b]
Num(n) == Rat(n, 1)
NaN == Rat(0, 0)
Obj(f) == [t |-> "object", f |-> f]

typeof(v) == IF v.t = "null" THEN "object" ELSE v.t

Get(o, k) == IF o.t = "object" /\ k \in DOMAIN o.f THEN o.f[k] ELSE Undefined

Truthy(v) ==
    CASE v.t = "undefined" -> FALSE
      [] v.t = "null" -> FALSE
      [] v.t = "string" -> Len(v.s) > 0
      [] v.t = "number" -> v.num # 0
      [] OTHER -> TRUE

startsWith(s, prefix) ==
    /\ Len(s) >= Len(prefix)
    /\ SubSeq(s, 1, Len(prefix)) = prefix

\* Math.ceil of num/den (den > 0)
MathCeil(v) == -((-v.num) \div v.den)

NumEq(v, n) == v.t = "number" /\ v.den # 0 /\ v.num = n * v.den

\* v < 0 and v <= 0 of a number: every comparison with NaN is false
Lt0(v) == v.den # 0 /\ v.num < 0
Le0(v) == v.den # 0 /\ v.num <= 0

-----------------------------------------------------------------------------
(* Windows, timers *)

NoWindow == <<"none", 0>>
FrameWindow == <<"frame", 1>>
OtherWindow == <<"other", 1>>
PopupWindow(k) == <<"popup", k>>
PopupIds == 1..MaxPopups

NoTimer == <<"none", 0>>
TimerId(k) == <<"timer", k>>

\* popup.closed of a window reference
Closed(W, w) == W.popups[w[2]] = "closed"

-----------------------------------------------------------------------------
(* Constants of messaging.ts *)

PROTOCOL_VERSION == 1
MESSAGE_PREFIX == <<"venyu:">>

MsgType(name) == Str(MESSAGE_PREFIX \o <<name>>)

T_ready == MsgType("ready")
T_init == MsgType("init")
T_resize == MsgType("resize")
T_booked == MsgType("booked")
T_openPopup == MsgType("auth:open-popup")
T_fallback == MsgType("auth:fallback-required")
T_popupResult == MsgType("auth:popup-result")
T_navigate == MsgType("navigate")
T_configUpdate == MsgType("config:update")

\* config.locale, config.theme, config.embedSessionId
locale == Str(<<"de">>)
theme == Obj(<<>>)
embedSessionId == Str(<<"sess_1">>)

\* window.location.origin of the host page
parentOrigin == <<"https://", "host.example">>

-----------------------------------------------------------------------------
(* URLs: <<scheme, host, path...>>; parseable when a scheme leads. *)

Schemes == {"https://", "http://"}

Parseable(url) == Len(url) >= 2 /\ url[1] \in Schemes

extractOrigin(url) == IF Parseable(url) THEN SubSeq(url, 1, 2) ELSE url

expectedOrigin(W) == extractOrigin(W.playUrl)

-----------------------------------------------------------------------------
(* Message codec *)

generateRequestId == Str(<<"uuid-v4">>)
DateNow == Num(1000)

\* mutant: any protocol version is accepted
versionOk_any(data) == TRUE

\* data.version !== PROTOCOL_VERSION
versionOk(data) == NumEq(Get(data, "version"), PROTOCOL_VERSION)

validateIncomingMessage(data) ==
    IF typeof(data) # "object" \/ data = JNull THEN JNull
    ELSE IF typeof(Get(data, "type")) # "string"
            \/ ~startsWith(Get(data, "type").s, MESSAGE_PREFIX) THEN JNull
    ELSE IF ~versionOk(data) THEN JNull
    ELSE IF typeof(Get(data, "requestId")) # "string"
            \/ Len(Get(data, "requestId").s) = 0 THEN JNull
    ELSE IF typeof(Get(data, "nonce")) # "string"
            \/ Len(Get(data, "nonce").s) = 0 THEN JNull
    ELSE IF typeof(Get(data, "timestamp")) # "number"
            \/ Le0(Get(data, "timestamp")) THEN JNull
    ELSE IF typeof(Get(data, "payload")) # "object"
            \/ Get(data, "payload") = JNull THEN JNull
    ELSE data

buildMessage(type, payload, nonce) ==
    Obj([type |-> type,
         version |-> Num(PROTOCOL_VERSION),
         requestId |-> generateRequestId,
         timestamp |-> DateNow,
         nonce |-> nonce,
         payload |-> payload])

-----------------------------------------------------------------------------
(* Effects *)

Bump(h, key) == [h EXCEPT ![key] = IF @ < MaxCount THEN @ + 1 ELSE @]

Emit(W, e) == [W EXCEPT !.out = Append(@, e)]

Count(W, key) == [W EXCEPT !.hist = Bump(@, key)]

\* contentWindow.postMessage(message, targetOrigin)
PostMessage(W, to, message, targetOrigin) ==
    Emit(W, [k |-> "post", to |-> to, msg |-> message, origin |-> targetOrigin])

\* popup.close()
CloseWindow(W, w, by) ==
    Emit([W EXCEPT !.popups[w[2]] = "closed"], [k |-> "close", w |-> w, by |-> by])

\* resolve / reject of the readiness promise: a settled promise stays as it is
resolveReady(W) ==
    IF W.readyPromise.status = "pending"
    THEN Count([W EXCEPT !.readyPromise = [status |-> "resolved", reason |-> "none"]],
               "settle")
    ELSE W

rejectReady(W, reason) ==
    IF W.readyPromise.status = "pending"
    THEN Count([W EXCEPT !.readyPromise = [status |-> "rejected", reason |-> reason]],
               "settle")
    ELSE W

-----------------------------------------------------------------------------
(* The bridge *)

clearPopupPoll(W) ==
    IF W.popupPollIntervalId # NoTimer
    THEN [W EXCEPT !.timers = @ \ {W.popupPollIntervalId},
                   !.popupPollIntervalId = NoTimer]
    ELSE W

\* destroy: mark destroyed, remove the listener
unlisten(W) ==
    Count(Emit([W EXCEPT !.state.destroyed = TRUE, !.listening = FALSE],
               [k |-> "removeEventListener"]), "removeListener")

\* destroy: close any open auth popup and drop the reference
closePopup(W) ==
    LET W1 == IF W.state.popup # NoWindow /\ ~Closed(W, W.state.popup)
              THEN Count(CloseWindow(W, W.state.popup, "destroy"), "destroyClose")
              ELSE W
    IN  [W1 EXCEPT !.state.popup = NoWindow]

\* mutant: no guard against a second call
destroy_noGuard(W) ==
    rejectReady(closePopup(clearPopupPoll(unlisten(W))), "destroyed-before-ready")

\* mutant: the poll interval is not cleared
destroy_noClear(W) ==
    IF W.state.destroyed THEN W
    ELSE rejectReady(closePopup(unlisten(W)), "destroyed-before-ready")

\* mutant: the pending readiness promise is not rejected
destroy_noReject(W) ==
    IF W.state.destroyed THEN W
    ELSE closePopup(clearPopupPoll(unlisten(W)))

destroy(W) ==
    IF W.state.destroyed THEN W
    ELSE rejectReady(closePopup(clearPopupPoll(unlisten(W))), "destroyed-before-ready")

\* callbacks.<name>?.(arg): the consumer's callback runs, and may call destroy()
Callback(W, name, arg, react) ==
    LET W1 == Emit(W, [k |-> "callback", name |-> name, arg |-> arg, react |-> react])
    IN  IF react = "destroy" THEN destroy(W1) ELSE W1

\* mutant: the message is addressed to any origin
sendToIframe_anyOrigin(W, type, payload) ==
    IF W.state.destroyed THEN W
    ELSE IF ~Truthy(W.state.nonce) THEN W
    ELSE IF W.iframe.contentWindow = NoWindow THEN W
    ELSE PostMessage(W, W.iframe.contentWindow,
                     buildMessage(type, payload, W.state.nonce), <<"*">>)

sendToIframe(W, type, payload) ==
    IF W.state.destroyed THEN W
    ELSE IF ~Truthy(W.state.nonce) THEN W
    ELSE IF W.iframe.contentWindow = NoWindow THEN W
    ELSE PostMessage(W, W.iframe.contentWindow,
                     buildMessage(type, payload, W.state.nonce), expectedOrigin(W))

\* new URL(`${playUrl}/embed/auth/popup`) with its search parameters
popupUrl(W) ==
    [base |-> W.playUrl \o <<"/embed/auth/popup">>,
     parentOrigin |-> parentOrigin,
     nonce |-> IF Truthy(W.state.nonce) THEN W.state.nonce ELSE Undefined,
     embedSessionId |-> embedSessionId]

\* setInterval(() => { if (popup.closed) { clearPopupPoll(); state.popup = null } }, 500)
\* for the popup window k the callback captured
pollCallback(W, k) ==
    IF Closed(W, PopupWindow(k))
    THEN [clearPopupPoll(W) EXCEPT !.state.popup = NoWindow]
    ELSE W

\* what window.open(url, 'venyu-auth', features) can return: null (blocked), the
\* open window of that name if the page has one, or else a new window
OpenResults(W) ==
    {NoWindow} \cup
    IF \E k \in PopupIds : W.popups[k] = "open"
    THEN { PopupWindow(k) : k \in { j \in PopupIds : W.popups[j] = "open" } }
    ELSE { PopupWindow(k) : k \in { j \in PopupIds :
                        /\ W.popups[j] = "unopened"
                        /\ \A i \in PopupIds : i < j => W.popups[i] # "unopened" } }

\* whether the browser lets the next window.open through
OpenChoices == {"blocked", "opened"}

\* window.open(url, 'venyu-auth', features) at the time of the call
windowOpen(W, choice) ==
    IF choice = "blocked" \/ OpenResults(W) = {NoWindow} THEN NoWindow
    ELSE CHOOSE w \in OpenResults(W) \ {NoWindow} : TRUE

\* mutant: a tracked popup is left open when the next one is requested
openAuthPopup_noClose(W, opened, react) ==
    IF W.state.destroyed THEN W
    ELSE LET W2 == clearPopupPoll(W)
         IN  IF ~Parseable(W2.playUrl \o <<"/embed/auth/popup">>)
             THEN Emit(W2, [k |-> "throw", error |-> "TypeError: Invalid URL"])
             ELSE LET popup == windowOpen(W2, opened)
                      W3 == Emit(W2, [k |-> "open", url |-> popupUrl(W2),
                                      result |-> popup])
                  IN  IF popup = NoWindow
                      THEN Callback(
                               sendToIframe(W3, T_popupResult,
                                            Obj([resultToken |-> Str(<<>>),
                                                 error |-> Str(<<"popup_blocked">>)])),
                               "onError", "Auth popup was blocked by the browser", react)
                      ELSE [W3 EXCEPT !.popups[popup[2]] = "open",
                                      !.state.popup = popup,
                                      !.timers = @ \cup {TimerId(popup[2])},
                                      !.popupPollIntervalId = TimerId(popup[2])]

\* opened: whether the browser lets window.open through or blocks the popup
openAuthPopup(W, opened, react) ==
    IF W.state.destroyed THEN W
    ELSE LET W1 == clearPopupPoll(W)
             W2 == IF W1.state.popup # NoWindow /\ ~Closed(W1, W1.state.popup)
                   THEN CloseWindow(W1, W1.state.popup, "openAuthPopup")
                   ELSE W1
         IN  IF ~Parseable(W2.playUrl \o <<"/embed/auth/popup">>)
             THEN Emit(W2, [k |-> "throw", error |-> "TypeError: Invalid URL"])
             ELSE LET popup == windowOpen(W2, opened)
                      W3 == Emit(W2, [k |-> "open", url |-> popupUrl(W2),
                                      result |-> popup])
                  IN  IF popup = NoWindow
                      THEN Callback(
                               sendToIframe(W3, T_popupResult,
                                            Obj([resultToken |-> Str(<<>>),
                                                 error |-> Str(<<"popup_blocked">>)])),
                               "onError", "Auth popup was blocked by the browser", react)
                      ELSE [W3 EXCEPT !.popups[popup[2]] = "open",
                                      !.state.popup = popup,
                                      !.timers = @ \cup {TimerId(popup[2])},
                                      !.popupPollIntervalId = TimerId(popup[2])]

\* iframe.style.height = `${Math.ceil(height)}px`: the style keeps its value when
\* the text is no CSS length ("NaNpx")
setHeight(W, height) ==
    IF height.den = 0
    THEN Emit(W, [k |-> "setHeight", invalid |-> <<"NaN", "px">>])
    ELSE Emit([W EXCEPT !.iframe.height = <<MathCeil(height)>>],
              [k |-> "setHeight", px |-> MathCeil(height)])

\* mutant: resizes a destroyed bridge's frame
handleResize_noDestroyedCheck(W, height) ==
    IF typeof(height) # "number" \/ Lt0(height) THEN W
    ELSE setHeight(W, height)

\* mutant: a negative height is applied
handleResize_noSignCheck(W, height) ==
    IF W.state.destroyed THEN W
    ELSE IF typeof(height) # "number" THEN W
    ELSE setHeight(W, height)

handleResize(W, height) ==
    IF W.state.destroyed THEN W
    ELSE IF typeof(height) # "number" \/ Lt0(height) THEN W
    ELSE setHeight(W, height)

\* mutant: the nonce is captured only once the content window is known
completeHandshake_nonceLate(W, message, react) ==
    LET W1 == [W EXCEPT !.state.handshakeComplete = TRUE]
        W2 == [W1 EXCEPT !.state.nonce = Get(message, "nonce")]
        contentWindow == W1.iframe.contentWindow
    IN  IF contentWindow = NoWindow
        THEN rejectReady(
                 Callback(W1, "onError", "Iframe contentWindow is not available",
                          react),
                 "contentWindow-not-available")
        ELSE LET initMessage ==
                     buildMessage(T_init,
                                  Obj([nonce |-> W2.state.nonce,
                                       locale |-> locale,
                                       theme |-> theme]),
                                  W2.state.nonce)
                 W3 == Count(PostMessage(W2, contentWindow, initMessage,
                                         expectedOrigin(W2)), "init")
                 W4 == Callback(Count(W3, "onReady"), "onReady", "none", react)
             IN  resolveReady(W4)

\* handleReadyMessage past its duplicate-handshake guard
completeHandshake(W, message, react) ==
    LET W1 == [W EXCEPT !.state.handshakeComplete = TRUE]
        W2 == [W1 EXCEPT !.state.nonce = Get(message, "nonce")]
        contentWindow == W2.iframe.contentWindow
    IN  IF contentWindow = NoWindow
        THEN rejectReady(
                 Callback(W2, "onError", "Iframe contentWindow is not available",
                          react),
                 "contentWindow-not-available")
        ELSE LET initMessage ==
                     buildMessage(T_init,
                                  Obj([nonce |-> W2.state.nonce,
                                       locale |-> locale,
                                       theme |-> theme]),
                                  W2.state.nonce)
                 W3 == Count(PostMessage(W2, contentWindow, initMessage,
                                         expectedOrigin(W2)), "init")
                 W4 == Callback(Count(W3, "onReady"), "onReady", "none", react)
             IN  resolveReady(W4)

\* mutant: the duplicate-handshake guard is missing
handleReadyMessage_noGuard(W, message, react) == completeHandshake(W, message, react)

handleReadyMessage(W, message, react) ==
    IF W.state.handshakeComplete THEN W
    ELSE completeHandshake(W, message, react)

\* mutant: the popup stays open and tracked after its result
handlePopupMessage_leavesOpen(W, message) ==
    LET resultToken == Get(Get(message, "payload"), "resultToken")
        W1 == IF typeof(resultToken) = "string" /\ Len(resultToken.s) > 0
              THEN sendToIframe(W, T_popupResult, Obj([resultToken |-> resultToken]))
              ELSE W
    IN  clearPopupPoll(W1)

\* mutant: any resultToken is relayed
handlePopupMessage_relayAll(W, message) ==
    LET resultToken == Get(Get(message, "payload"), "resultToken")
        W1 == sendToIframe(W, T_popupResult, Obj([resultToken |-> resultToken]))
        W2 == clearPopupPoll(W1)
        W3 == IF W2.state.popup # NoWindow /\ ~Closed(W2, W2.state.popup)
              THEN CloseWindow(W2, W2.state.popup, "handlePopupMessage")
              ELSE W2
    IN  [W3 EXCEPT !.state.popup = NoWindow]

\* mutant: the popup reference is kept after the result
handlePopupMessage_keepsPopup(W, message) ==
    LET resultToken == Get(Get(message, "payload"), "resultToken")
        W1 == IF typeof(resultToken) = "string" /\ Len(resultToken.s) > 0
              THEN sendToIframe(W, T_popupResult, Obj([resultToken |-> resultToken]))
              ELSE W
        W2 == clearPopupPoll(W1)
    IN  IF W2.state.popup # NoWindow /\ ~Closed(W2, W2.state.popup)
        THEN CloseWindow(W2, W2.state.popup, "handlePopupMessage")
        ELSE W2

handlePopupMessage(W, message) ==
    LET resultToken == Get(Get(message, "payload"), "resultToken")
        W1 == IF typeof(resultToken) = "string" /\ Len(resultToken.s) > 0
              THEN sendToIframe(W, T_popupResult, Obj([resultToken |-> resultToken]))
              ELSE W
        W2 == clearPopupPoll(W1)
        W3 == IF W2.state.popup # NoWindow /\ ~Closed(W2, W2.state.popup)
              THEN CloseWindow(W2, W2.state.popup, "handlePopupMessage")
              ELSE W2
    IN  [W3 EXCEPT !.state.popup = NoWindow]

\* mutant: the two payload fields are swapped
routeBooked_swapped(W, payload, react) ==
    IF /\ typeof(Get(payload, "bookingId")) = "string"
       /\ typeof(Get(payload, "status")) = "string"
    THEN Callback(W, "onBooked",
                  [bookingId |-> Get(payload, "status"),
                   status |-> Get(payload, "bookingId")],
                  react)
    ELSE W

\* case 'venyu:booked' of the switch
routeBooked(W, payload, react) ==
    IF /\ typeof(Get(payload, "bookingId")) = "string"
       /\ typeof(Get(payload, "status")) = "string"
    THEN Callback(W, "onBooked",
                  [bookingId |-> Get(payload, "bookingId"),
                   status |-> Get(payload, "status")],
                  react)
    ELSE W

\* step 7 of handleMessage: the switch on message.type
route(W, message, react, opened) ==
    LET type == Get(message, "type")
        payload == Get(message, "payload")
    IN  CASE type = T_resize ->
                 IF typeof(Get(payload, "height")) = "number"
                 THEN handleResize(W, Get(payload, "height"))
                 ELSE W
          [] type = T_booked -> routeBooked(W, payload, react)
          [] type = T_openPopup -> openAuthPopup(W, opened, react)
          [] type = T_fallback ->
                 IF typeof(Get(payload, "reason")) = "string"
                 THEN Callback(W, "onAuthFallbackRequired", Get(payload, "reason"),
                               react)
                 ELSE W
          [] type = T_navigate -> Emit(W, [k |-> "scrollIntoView"])
          [] OTHER -> W

\* mutant: any origin passes
originOk_any(W, event) == TRUE

\* step 1: origin validation
originOk(W, event) == event.origin = expectedOrigin(W)

\* step 2: source validation
isFromIframe(W, event) == event.source = W.iframe.contentWindow

isFromPopup(W, event) ==
    /\ W.state.popup # NoWindow
    /\ ~Closed(W, W.state.popup)
    /\ event.source = W.state.popup

\* mutant: a popup may send any type
popupMessageOk_anyType(W, message) ==
    /\ Truthy(W.state.nonce)
    /\ Get(message, "nonce") = W.state.nonce

\* step 4: what a popup may send
popupMessageOk(W, message) ==
    /\ Get(message, "type") = T_popupResult
    /\ Truthy(W.state.nonce)
    /\ Get(message, "nonce") = W.state.nonce

\* mutant: the nonce is not compared
nonceOk_flagOnly(W, message) == W.state.handshakeComplete

\* step 6: nonce validation of post-handshake messages
nonceOk(W, message) ==
    /\ W.state.handshakeComplete
    /\ Get(message, "nonce") = W.state.nonce

handleMessage(W, event, react, opened) ==
    IF W.state.destroyed THEN W
    ELSE IF ~originOk(W, event) THEN W
    ELSE IF ~isFromIframe(W, event) /\ ~isFromPopup(W, event) THEN W
    ELSE LET message == validateIncomingMessage(event.data)
         IN  IF message = JNull THEN W
             ELSE IF isFromPopup(W, event)
                  THEN IF popupMessageOk(W, message)
                       THEN handlePopupMessage(W, message)
                       ELSE W
             ELSE IF Get(message, "type") = T_ready
                  THEN handleReadyMessage(W, message, react)
             ELSE IF ~nonceOk(W, message) THEN W
             ELSE route(W, message, react, opened)

\* mutant: both fields are sent, given or not
sendConfigUpdate_allKeys(W, update) ==
    IF W.state.destroyed THEN W
    ELSE IF ~W.state.handshakeComplete THEN W
    ELSE sendToIframe(W, T_configUpdate,
                      Obj([locale |-> update.locale, theme |-> update.theme]))

\* update: [locale, theme], Undefined where not given
sendConfigUpdate(W, update) ==
    IF W.state.destroyed THEN W
    ELSE IF ~W.state.handshakeComplete THEN W
    ELSE LET keys == {k \in {"locale", "theme"} : update[k] # Undefined}
         IN  sendToIframe(W, T_configUpdate, Obj([k \in keys |-> update[k]]))

-----------------------------------------------------------------------------
(* Inputs *)

PlayUrls == { <<"https://", "play.venyu.ch", "/app">>, <<"play.venyu.ch">> }

PlayOrigin == <<"https://", "play.venyu.ch">>
EvilOrigin == <<"https://", "evil.example">>

Nonces == { <<"n1">>, <<"n2">> }

Msg(type, nonce, payload) ==
    Obj([type |-> type,
         version |-> Num(PROTOCOL_VERSION),
         requestId |-> Str(<<"req">>),
         timestamp |-> Num(5),
         nonce |-> Str(nonce),
         payload |-> payload])

Empty == Obj(<<>>)

BookedOk == Obj([bookingId |-> Str(<<"b1">>), status |-> Str(<<"confirmed">>)])
BookedBad == Obj([bookingId |-> Num(7), status |-> Str(<<"confirmed">>)])

ResultPayloads ==
    { Obj([resultToken |-> Str(<<"tok_1">>)]),
      Obj([resultToken |-> Str(<<>>)]),
      Obj([resultToken |-> Num(3)]) }

ValidData ==
    UNION { { Msg(T_ready, n, Empty),
              Msg(T_resize, n, Obj([height |-> Rat(7, 2)])),
              Msg(T_resize, n, Obj([height |-> Num(-1)])),
              Msg(T_resize, n, Obj([height |-> Num(0)])),
              Msg(T_resize, n, Obj([height |-> NaN])),
              Msg(T_resize, n, Obj([height |-> Str(<<"12">>)])),
              Msg(T_booked, n, BookedOk),
              Msg(T_booked, n, BookedBad),
              Msg(T_openPopup, n, Empty),
              Msg(T_fallback, n, Obj([reason |-> Str(<<"third-party-cookies">>)])),
              Msg(T_fallback, n, Empty),
              Msg(T_navigate, n, Empty),
              Msg(MsgType("future"), n, Empty) }
            \cup { Msg(T_popupResult, n, p) : p \in ResultPayloads }
          : n \in Nonces }

\* a popup result with the wrong protocol version
BadVersionResult ==
    Obj([Msg(T_popupResult, <<"n1">>, Obj([resultToken |-> Str(<<"tok_1">>)])).f
         EXCEPT !.version = Num(2)])

\* one structural defect each, on an otherwise valid ready signal (and one booked)
Malformed ==
    LET ok == Msg(T_ready, <<"n1">>, Empty).f
    IN  { Obj([ok EXCEPT !.version = Num(2)]),
          Obj([Msg(T_booked, <<"n1">>, BookedOk).f EXCEPT !.version = Num(2)]),
          Obj([ok EXCEPT !.timestamp = Num(-5)]),
          Obj([ok EXCEPT !.payload = Str(<<"x">>)]),
          Obj([k \in DOMAIN ok \ {"nonce"} |-> ok[k]]),
          Obj([ok EXCEPT !.type = Str(<<"other:", "ready">>)]),
          Obj([ok EXCEPT !.type = Num(1)]),
          Obj([ok EXCEPT !.requestId = Str(<<>>)]),
          Obj([ok EXCEPT !.nonce = Str(<<>>)]),
          Obj([ok EXCEPT !.timestamp = Num(0)]),
          Obj([ok EXCEPT !.payload = JNull]),
          Obj([k \in DOMAIN ok \ {"requestId"} |-> ok[k]]),
          JNull,
          Str(<<"venyu:", "ready">>) }

Event(origin, source, data) == [origin |-> origin, source |-> source, data |-> data]

Events ==
    \* from the frame's content window, expected origin: everything
    { Event(PlayOrigin, FrameWindow, d) : d \in ValidData \cup Malformed }
    \* from a popup window, expected origin
    \cup { Event(PlayOrigin, PopupWindow(k), d) :
             k \in PopupIds,
             d \in { Msg(T_popupResult, n, p) : n \in Nonces, p \in ResultPayloads }
                   \cup { Msg(T_ready, <<"n1">>, Empty),
                          Msg(T_booked, <<"n1">>, BookedOk),
                          Msg(T_openPopup, <<"n1">>, Empty),
                          Msg(T_resize, <<"n1">>, Obj([height |-> Rat(7, 2)])),
                          BadVersionResult } }
    \* unexpected origin, trusted sender
    \cup { Event(EvilOrigin, FrameWindow, d) :
             d \in { Msg(T_ready, n, Empty) : n \in Nonces }
                   \cup { Msg(T_booked, n, BookedOk) : n \in Nonces }
                   \cup { Msg(T_openPopup, <<"n1">>, Empty) } }
    \cup { Event(EvilOrigin, PopupWindow(1),
                 Msg(T_popupResult, n, Obj([resultToken |-> Str(<<"tok_1">>)]))) :
             n \in Nonces }
    \* expected origin, another window or no window as the sender
    \cup { Event(PlayOrigin, w, d) :
             w \in {OtherWindow, NoWindow},
             d \in { Msg(T_ready, n, Empty) : n \in Nonces }
                   \cup { Msg(T_booked, <<"n1">>, BookedOk),
                          Msg(T_openPopup, <<"n1">>, Empty),
                          Msg(T_popupResult, <<"n1">>,
                              Obj([resultToken |-> Str(<<"tok_1">>)])) } }

\* what the consumer does inside a callback
Reactions == {"none", "destroy"}

Updates ==
    { [locale |-> l, theme |-> th] :
        l \in {Undefined, Str(<<"en">>)},
        th \in {Undefined, Obj([primaryColor |-> Str(<<"#1a73e8">>)])} }

-----------------------------------------------------------------------------
(* The state machine *)

HistKeys == {"init", "onReady", "settle", "removeListener", "destroyClose"}

\* the world the next handler starts in: the variables, with an empty effect log
Begin ==
    [state |-> state,
     popupPollIntervalId |-> popupPollIntervalId,
     readyPromise |-> readyPromise,
     listening |-> listening,
     iframe |-> iframe,
     popups |-> popups,
     timers |-> timers,
     playUrl |-> playUrl,
     out |-> <<>>,
     hist |-> hist,
     init |-> init]

Snap(W) ==
    [state |-> W.state,
     popupPollIntervalId |-> W.popupPollIntervalId,
     readyPromise |-> W.readyPromise,
     listening |-> W.listening,
     iframe |-> W.iframe,
     popups |-> W.popups,
     timers |-> W.timers,
     hist |-> W.hist,
     init |-> W.init]

\* the variables of the bridge take the values of world W
Install(W) ==
    /\ state' = W.state
    /\ popupPollIntervalId' = W.popupPollIntervalId
    /\ readyPromise' = W.readyPromise
    /\ listening' = W.listening
    /\ iframe' = W.iframe
    /\ popups' = W.popups
    /\ timers' = W.timers
    /\ playUrl' = W.playUrl
    /\ out' = W.out
    /\ hist' = W.hist
    /\ init' = W.init

Commit(op, arg, W) ==
    /\ Install(W)
    /\ other' = other
    /\ last' = [op |-> op, arg |-> arg, pre |-> Snap(Begin)]

\* the bridge is used on its own: no init() call
NoInit == [pc |-> "none"]

\* a page with one bridge
NoBridge == [listening |-> FALSE]

\* createMessagingBridge(config): the state after construction
Created(url) ==
    [state |-> [nonce |-> JNull, popup |-> NoWindow,
                handshakeComplete |-> FALSE, destroyed |-> FALSE],
     popupPollIntervalId |-> NoTimer,
     readyPromise |-> [status |-> "pending", reason |-> "none"],
     listening |-> TRUE,
     iframe |-> [contentWindow |-> FrameWindow, height |-> <<>>],
     popups |-> [k \in PopupIds |-> "unopened"],
     timers |-> {},
     playUrl |-> url,
     out |-> <<[k |-> "addEventListener"]>>,
     hist |-> [k \in HistKeys |-> 0],
     init |-> NoInit]

\* the input of a step that has none
NoArg == [none |-> TRUE]

\* the variables hold world W, reached by operation op from world W0
Start(op, W0, W) ==
    /\ state = W.state
    /\ popupPollIntervalId = W.popupPollIntervalId
    /\ readyPromise = W.readyPromise
    /\ listening = W.listening
    /\ iframe = W.iframe
    /\ popups = W.popups
    /\ timers = W.timers
    /\ playUrl = W.playUrl
    /\ out = W.out
    /\ hist = W.hist
    /\ init = W.init
    /\ last = [op |-> op, arg |-> NoArg, pre |-> Snap(W0)]

Init ==
    \E url \in PlayUrls :
        /\ Start("create", [Created(url) EXCEPT !.listening = FALSE], Created(url))
        /\ other = NoBridge

\* the browser dispatches a message event on window: handleMessage runs if registered
DeliverMessage ==
    \E event \in Events :
        \E W \in IF listening
                 THEN { handleMessage(Begin, event, react, opened) :
                          react \in Reactions, opened \in OpenChoices }
                 ELSE { Begin } :
            Commit("message", event, W)

\* bridge.destroy()
Destroy == Commit("destroy", NoArg, destroy(Begin))

\* bridge.sendConfigUpdate(update)
SendConfigUpdate ==
    \E update \in Updates :
        Commit("sendConfigUpdate", update, sendConfigUpdate(Begin, update))

\* a live poll interval fires
PollTick ==
    \E id \in timers : Commit("poll", [timer |-> id], pollCallback(Begin, id[2]))

\* the user closes an open popup window
UserClosesPopup ==
    \E k \in PopupIds :
        /\ popups[k] = "open"
        /\ Commit("userClose", [popup |-> k], [Begin EXCEPT !.popups[k] = "closed"])

\* the iframe element leaves the document: its contentWindow becomes null
DetachFrame ==
    /\ iframe.contentWindow # NoWindow
    /\ Commit("detach", NoArg, [Begin EXCEPT !.iframe.contentWindow = NoWindow])

Next ==
    \/ DeliverMessage
    \/ Destroy
    \/ SendConfigUpdate
    \/ PollTick
    \/ UserClosesPopup
    \/ DetachFrame

Spec == Init /\ [][Next]_vars

\* setInterval: a live poll interval keeps firing
PollLive == Spec /\ WF_vars(PollTick)

-----------------------------------------------------------------------------
(* Two bridges on one page.  Each createMessagingBridge call has its own     *)
(* closure (state, poll handle, readiness promise) and registers its own     *)
(* handleMessage on the one window; the popup windows belong to the page.    *)
(* The first bridge lives in the bridge variables, the second in `other`.    *)

FrameWindow2 == <<"frame", 2>>
PlayUrlA == <<"https://", "play.venyu.ch", "/app">>
PlayUrl2 == <<"https://", "play2.venyu.ch">>
PlayOrigin2 == <<"https://", "play2.venyu.ch">>

Bridges == {"A", "B"}

\* the second bridge's world at the start of a step
BeginOther == [other EXCEPT !.out = <<>>, !.popups = popups]

\* a message event and the window that posted it; event.source is null when
\* that window is gone by the time of delivery
Sent(sender, event) ==
    [origin |-> event.origin, source |-> event.source, data |-> event.data,
     sender |-> sender]

Events2 ==
    LET data == { Msg(T_ready, <<"n1">>, Empty),
                  Msg(T_booked, <<"n1">>, BookedOk),
                  Msg(T_openPopup, <<"n1">>, Empty) }
        result == Msg(T_popupResult, <<"n1">>, Obj([resultToken |-> Str(<<"tok_1">>)]))
    IN  { Sent(w, Event(o, w, d)) :
            w \in {FrameWindow, FrameWindow2}, o \in {PlayOrigin, PlayOrigin2},
            d \in data }
        \cup { Sent(PopupWindow(k), Event(o, PopupWindow(k), result)) :
                 k \in PopupIds, o \in {PlayOrigin, PlayOrigin2} }
        \cup { Sent(w, Event(PlayOrigin, NoWindow, Msg(T_ready, <<"n1">>, Empty))) :
                 w \in {FrameWindow, FrameWindow2} }

\* the frame that posted a message whose source is null has left the document
Deliverable(event) ==
    event.source = NoWindow
    => \/ event.sender = FrameWindow /\ iframe.contentWindow = NoWindow
       \/ event.sender = FrameWindow2 /\ other.iframe.contentWindow = NoWindow

CommitTwo(op, arg, WA, WB) ==
    /\ Install([WA EXCEPT !.popups = WB.popups])
    /\ other' = WB
    /\ last' = [op |-> op, arg |-> arg, pre |-> Snap(Begin),
                preOther |-> Snap(BeginOther)]

\* the second createMessagingBridge call returned
TwoInit ==
    /\ Start("create", [Created(PlayUrlA) EXCEPT !.listening = FALSE],
             Created(PlayUrlA))
    /\ \E url \in {PlayUrlA, PlayUrl2} :
           other = [Created(url) EXCEPT !.iframe.contentWindow = FrameWindow2]

\* window dispatches the event to both listeners, in the order of registration
TwoDeliver ==
    \E event \in Events2 :
        /\ Deliverable(event)
        /\ \E WA \in IF listening
                     THEN { handleMessage(Begin, event, react, opened) :
                              react \in Reactions, opened \in OpenChoices }
                     ELSE { Begin } :
               LET B0 == [BeginOther EXCEPT !.popups = WA.popups]
               IN  \E WB \in IF other.listening
                             THEN { handleMessage(B0, event, react, opened) :
                                      react \in Reactions, opened \in OpenChoices }
                             ELSE { B0 } :
                       CommitTwo("message", event, WA, WB)

\* destroy() of one of the bridges
TwoDestroy ==
    \/ LET WA == destroy(Begin)
       IN  CommitTwo("destroy", [bridge |-> "A"], WA, [BeginOther EXCEPT !.popups = WA.popups])
    \/ CommitTwo("destroy", [bridge |-> "B"], Begin, destroy(BeginOther))

\* a poll interval of one of the bridges fires
TwoPollTick ==
    \/ \E id \in timers :
           CommitTwo("poll", [bridge |-> "A"], pollCallback(Begin, id[2]), BeginOther)
    \/ \E id \in other.timers :
           CommitTwo("poll", [bridge |-> "B"], Begin, pollCallback(BeginOther, id[2]))

TwoUserClosesPopup ==
    \E k \in PopupIds :
        /\ popups[k] = "open"
        /\ CommitTwo("userClose", [popup |-> k], [Begin EXCEPT !.popups[k] = "closed"],
                     [BeginOther EXCEPT !.popups[k] = "closed"])

\* one of the iframe elements leaves the document
TwoDetachFrame ==
    \/ /\ iframe.contentWindow # NoWindow
       /\ CommitTwo("detach", [bridge |-> "A"], [Begin EXCEPT !.iframe.contentWindow = NoWindow],
                    BeginOther)
    \/ /\ other.iframe.contentWindow # NoWindow
       /\ CommitTwo("detach", [bridge |-> "B"], Begin,
                    [BeginOther EXCEPT !.iframe.contentWindow = NoWindow])

TwoNext ==
    \/ TwoDeliver
    \/ TwoDestroy
    \/ TwoPollTick
    \/ TwoUserClosesPopup
    \/ TwoDetachFrame

TwoSpec == TwoInit /\ [][TwoNext]_vars

-----------------------------------------------------------------------------
(* init(config, callbacks) of index.ts: validate the configuration, call    *)
(* the session endpoint, create the iframe and the bridge, wait for the     *)
(* bridge to be ready, return the instance.  `init` holds the position of   *)
(* the call (pc), its two timers, its destroyed flag, whether onError was   *)
(* invoked since the call, and the error it rejected with.                  *)

\* config.container: an element, a selector that matches, one that does not,
\* or something else
Containers == {"element", "selector-found", "selector-missing", "number"}

ValidConfig(url) ==
    [container |-> "element", publicKey |-> Str(<<"pk_live">>),
     orgSlug |-> Str(<<"club">>), facilitySlug |-> Str(<<"hall">>), playUrl |-> url]

Configs ==
    { ValidConfig(url) : url \in PlayUrls }
    \cup { [ValidConfig(PlayUrlA) EXCEPT !.container = c] : c \in Containers }
    \cup { [ValidConfig(PlayUrlA) EXCEPT !.publicKey = Str(<<>>)],
           [ValidConfig(PlayUrlA) EXCEPT !.orgSlug = Num(7)],
           [ValidConfig(PlayUrlA) EXCEPT !.facilitySlug = Undefined] }

\* the message of the error validateConfig throws, or "ok"
validateConfig(config) ==
    IF config.container = "selector-missing" THEN "Container element not found"
    ELSE IF config.container \notin {"element", "selector-found"}
    THEN "Invalid container"
    ELSE IF ~Truthy(config.publicKey) \/ typeof(config.publicKey) # "string"
    THEN "publicKey is required"
    ELSE IF ~Truthy(config.orgSlug) \/ typeof(config.orgSlug) # "string"
    THEN "orgSlug is required"
    ELSE IF ~Truthy(config.facilitySlug) \/ typeof(config.facilitySlug) # "string"
    THEN "facilitySlug is required"
    ELSE "ok"

\* how the session call ends unless its timeout aborts it: a session, an HTTP
\* error status, a body without embedToken, a network failure
SessionResults == {"ok", "http-error", "no-token", "network-error"}

\* init() was called and has not run yet
Called ==
    [pc |-> "called", apiTimeout |-> FALSE, readyTimeoutId |-> FALSE,
     destroyed |-> FALSE, reported |-> FALSE, error |-> "none"]

\* before step 3 there is neither an iframe nor a bridge
NotCreated(url) ==
    [Created(url) EXCEPT !.listening = FALSE, !.iframe.contentWindow = NoWindow,
                         !.out = <<>>, !.init = Called]

\* safeCallbacks.onError?.(err)
reportError(W, message) ==
    Emit([W EXCEPT !.init.reported = TRUE],
         [k |-> "callback", name |-> "onError", arg |-> message, react |-> "none"])

\* throw err: the promise init() returned is rejected
throw(W, message) == [W EXCEPT !.init.pc = "rejected", !.init.error = message]

\* the bridge invoked onError during the step
noteErrors(W) ==
    IF \E i \in DOMAIN W.out : W.out[i].k = "callback" /\ W.out[i].name = "onError"
    THEN [W EXCEPT !.init.reported = TRUE]
    ELSE W

\* destroy() of createIframe's result: the element leaves the document
destroyIframe(W) ==
    Emit([W EXCEPT !.iframe.contentWindow = NoWindow], [k |-> "removeIframe"])

\* steps 3 and 4: createIframe, appendChild, createMessagingBridge
createMessagingBridge(W) ==
    Emit([W EXCEPT !.iframe.contentWindow = FrameWindow, !.listening = TRUE],
         [k |-> "addEventListener"])

\* init() up to its first await: step 1, and the start of the session call
initCall(W, config) ==
    LET error == validateConfig(config)
    IN  IF error # "ok"
        THEN throw(reportError(W, error), error)
        ELSE [W EXCEPT !.init.pc = "session", !.init.apiTimeout = TRUE]

\* mutant: the failed wait leaves the iframe in the document
failReady_keepsIframe(W, message) ==
    LET W1 == destroy(W)
        W2 == reportError(W1, message)
    IN  throw([W2 EXCEPT !.init.readyTimeoutId = FALSE], message)

\* the catch block of step 5, and its finally
failReady(W, message) ==
    LET W1 == destroyIframe(destroy(W))
        W2 == reportError(W1, message)
    IN  throw([W2 EXCEPT !.init.readyTimeoutId = FALSE], message)

\* init() from the end of the session call to its second await
sessionSettled(W, result) ==
    LET W1 == [W EXCEPT !.init.apiTimeout = FALSE]
    IN  IF result # "ok" THEN throw(reportError(W1, result), result)
        ELSE IF W1.init.destroyed THEN throw(W1, "destroyed during initialization")
        ELSE IF ~Parseable(W1.playUrl) THEN throw(W1, "TypeError: Invalid URL")
        ELSE [createMessagingBridge(W1) EXCEPT !.init.pc = "waiting",
                                                 !.init.readyTimeoutId = TRUE]

\* init() from the settling of bridge.ready to its return
readySettled(W) ==
    IF W.init.pc # "waiting" THEN W
    ELSE IF W.readyPromise.status = "rejected"
    THEN failReady(W, W.readyPromise.reason)
    ELSE IF W.readyPromise.status = "resolved"
    THEN LET W1 == [W EXCEPT !.init.readyTimeoutId = FALSE]
         IN  IF W1.init.destroyed
             THEN throw(destroyIframe(destroy(W1)), "destroyed during initialization")
             ELSE [W1 EXCEPT !.init.pc = "resolved"]
    ELSE W

\* mutant: instance.destroy() runs again on a destroyed instance
instanceDestroy_noGuard(W) ==
    destroyIframe(destroy([W EXCEPT !.init.destroyed = TRUE]))

\* instance.destroy()
instanceDestroy(W) ==
    IF W.init.destroyed THEN W
    ELSE destroyIframe(destroy([W EXCEPT !.init.destroyed = TRUE]))

\* instance.setConfig(partial)
instanceSetConfig(W, partial) ==
    IF W.init.destroyed
    THEN Emit(W, [k |-> "throw", error |-> "setConfig() on a destroyed widget"])
    ELSE sendConfigUpdate(W, partial)

\* a consumer callback that holds the instance calls instance.destroy()
consumerDestroyed(W0, W) ==
    IF W.state.destroyed /\ ~W0.state.destroyed /\ ~W.init.destroyed
    THEN destroyIframe([W EXCEPT !.init.destroyed = TRUE])
    ELSE W

\* the consumer holds the instance only after init() resolved
InitReactions(W) == IF W.init.pc = "resolved" THEN Reactions ELSE {"none"}

InitEvents ==
    { Event(PlayOrigin, FrameWindow, d) :
        d \in { Msg(T_ready, <<"n1">>, Empty),
                Msg(T_ready, <<"n2">>, Empty),
                Msg(T_booked, <<"n1">>, BookedOk),
                Msg(T_openPopup, <<"n1">>, Empty),
                Obj([Msg(T_ready, <<"n1">>, Empty).f EXCEPT !.version = Num(2)]) } }
    \cup { Event(PlayOrigin, NoWindow, Msg(T_ready, <<"n1">>, Empty)),
           Event(EvilOrigin, FrameWindow, Msg(T_ready, <<"n1">>, Empty)),
           Event(PlayOrigin, PopupWindow(1),
                 Msg(T_popupResult, <<"n1">>, Obj([resultToken |-> Str(<<"tok_1">>)]))) }

InitInit ==
    /\ \E config \in Configs :
           Start("init", NotCreated(config.playUrl),
                 initCall(NotCreated(config.playUrl), config))
    /\ other = NoBridge

\* the session call ends: fetch or response.json() settles
SessionReturns ==
    /\ init.pc = "session"
    /\ \E result \in SessionResults :
           Commit("session", [result |-> result], sessionSettled(Begin, result))

\* API_TIMEOUT_MS passed: controller.abort() ends the session call
ApiTimeout ==
    /\ init.pc = "session"
    /\ init.apiTimeout
    /\ Commit("apiTimeout", NoArg, sessionSettled(Begin, "timed-out"))

\* a message event, and the continuation of init() if bridge.ready settled
InitDeliver ==
    \E event \in InitEvents :
        \E W \in IF listening
                 THEN { handleMessage(Begin, event, react, opened) :
                          react \in InitReactions(Begin), opened \in OpenChoices }
                 ELSE { Begin } :
            Commit("message", event,
                   readySettled(noteErrors(consumerDestroyed(Begin, W))))

\* READY_TIMEOUT_MS passed before bridge.ready settled
ReadyTimeout ==
    /\ init.pc = "waiting"
    /\ init.readyTimeoutId
    /\ Commit("readyTimeout", NoArg, failReady(Begin, "did not become ready"))

InstanceDestroy ==
    /\ init.pc = "resolved"
    /\ Commit("instanceDestroy", NoArg, instanceDestroy(Begin))

InstanceSetConfig ==
    /\ init.pc = "resolved"
    /\ \E update \in Updates :
           Commit("instanceSetConfig", update, instanceSetConfig(Begin, update))

InitNext ==
    \/ SessionReturns
    \/ ApiTimeout
    \/ InitDeliver
    \/ ReadyTimeout
    \/ InstanceDestroy
    \/ InstanceSetConfig
    \/ PollTick
    \/ UserClosesPopup
    \/ DetachFrame

InitSpec == InitInit /\ [][InitNext]_vars

\* timers fire: setTimeout callbacks run once their delay has passed
InitLive == InitSpec /\ WF_vars(ApiTimeout) /\ WF_vars(ReadyTimeout)

-----------------------------------------------------------------------------
(* validateIncomingMessage as a function of its input alone: the input is   *)
(* drawn at the start, the one step applies the function.                   *)

\* raw inputs: every combination of these field values, a field whose value
\* is Undefined being absent, and four inputs that are no records
RawInputs ==
    { LET f == [type |-> ty, version |-> v, requestId |-> r, nonce |-> n,
                timestamp |-> ts, payload |-> pl]
      IN  Obj([k \in {j \in DOMAIN f : f[j] # Undefined} |-> f[k]]) :
        ty \in {T_ready, MsgType("future"), Str(<<"other:", "ready">>), Str(<<>>),
                Num(1), Undefined},
        v \in {Num(PROTOCOL_VERSION), Num(2), Str(<<"1">>)},
        r \in {Str(<<"req">>), Str(<<>>), Undefined},
        n \in {Str(<<"n1">>), Str(<<>>), Num(5)},
        ts \in {Num(5), Rat(3, 2), Num(0), Num(-5), NaN, Str(<<"5">>)},
        pl \in {Empty, Obj([junk |-> JNull]), JNull, Str(<<"x">>), Undefined} }
    \cup {JNull, Undefined, Str(<<"venyu:ready">>), Num(1)}

ValidateInit ==
    /\ Start("raw", Created(PlayUrlA), [Created(PlayUrlA) EXCEPT !.out = <<>>])
    /\ other \in { [listening |-> FALSE, raw |-> raw] : raw \in RawInputs }

\* const message = validateIncomingMessage(event.data)
Validate ==
    /\ last.op = "raw"
    /\ out' = <<[k |-> "return", value |-> validateIncomingMessage(other.raw)]>>
    /\ last' = [last EXCEPT !.op = "validate"]
    /\ UNCHANGED <<state, popupPollIntervalId, readyPromise, listening, iframe,
                   popups, timers, playUrl, hist, init, other>>

ValidateNext == Validate

ValidateSpec == ValidateInit /\ [][ValidateNext]_vars

-----------------------------------------------------------------------------
(* Vocabulary of the claims: the last step and what it did *)

\* the session and DOM state now, comparable with last.pre
Now == Snap(Begin)

\* the last step was a message event that handleMessage received
Received == last.op = "message" /\ last.pre.listening

\* the last step left everything as it was and had no effect
Dropped == out = <<>> /\ Now = last.pre

\* the origin a message must declare, written out for each playUrl
ConfiguredOrigin ==
    IF playUrl = <<"https://", "play.venyu.ch", "/app">> THEN PlayOrigin ELSE playUrl

SentByFrame == last.arg.source = last.pre.iframe.contentWindow

SentByTrackedPopup ==
    /\ last.pre.state.popup # NoWindow
    /\ last.pre.popups[last.pre.state.popup[2]] = "open"
    /\ last.arg.source = last.pre.state.popup

\* a structurally valid message received from the frame with the expected origin
FromFrame ==
    /\ Received
    /\ last.arg.origin = ConfiguredOrigin
    /\ SentByFrame
    /\ last.arg.data \in ValidData

TypeOf(data) == data.f.type
NonceOf(data) == data.f.nonce

Effects(kind) == SelectSeq(out, LAMBDA e : e.k = kind)
Calls(name) == SelectSeq(out, LAMBDA e : e.k = "callback" /\ e.name = name)
Posts(type) == SelectSeq(out, LAMBDA e : e.k = "post" /\ e.msg.f.type = type)

-----------------------------------------------------------------------------
(* C1: of all ready signals received, at most one moves the session from    *)
(* awaiting-ready to handshake-complete (the flag never goes back, and it   *)
(* is raised only by a ready signal); the session nonce is then the nonce   *)
(* of that signal, and once set it is never changed by any later step.      *)
C1_SingleHandshake ==
    /\ last.pre.state.handshakeComplete => state.handshakeComplete
    /\ (~last.pre.state.handshakeComplete /\ state.handshakeComplete)
          => /\ Received
             /\ TypeOf(last.arg.data) = T_ready
             /\ state.nonce = NonceOf(last.arg.data)
    /\ last.pre.state.nonce # JNull => state.nonce = last.pre.state.nonce
    /\ (last.pre.state.nonce = JNull /\ state.nonce # JNull)
          => ~last.pre.state.handshakeComplete /\ state.handshakeComplete

\* a second ready signal with another nonce reached the handshake handler
C1_Witness ==
    /\ FromFrame
    /\ TypeOf(last.arg.data) = T_ready
    /\ last.pre.state.handshakeComplete
    /\ NonceOf(last.arg.data) # last.pre.state.nonce
    /\ state.nonce = last.pre.state.nonce

(* C2: a message sent by the frame's content window whose declared origin   *)
(* differs from the expected origin is dropped in every state: no session   *)
(* field changes, nothing is called, posted or opened.                      *)
C2_WrongOriginDropped ==
    (/\ Received
     /\ SentByFrame
     /\ last.arg.origin # ConfiguredOrigin) => Dropped

\* a structurally valid message with the session nonce, from the frame, wrong origin
C2_Witness ==
    /\ Received
    /\ SentByFrame
    /\ last.arg.origin = EvilOrigin
    /\ last.arg.data \in ValidData
    /\ last.pre.state.handshakeComplete
    /\ NonceOf(last.arg.data) = last.pre.state.nonce
    /\ TypeOf(last.arg.data) = T_booked
    /\ Dropped

\* the frame messages whose handler has a visible effect, and that effect
Visible(data) ==
    CASE data.f.type = T_booked /\ data.f.payload = BookedOk -> "callback"
      [] data.f.type = T_fallback /\ data.f.payload # Empty -> "callback"
      [] data.f.type = T_navigate -> "scrollIntoView"
      [] data.f.type = T_resize /\ data.f.payload = Obj([height |-> Rat(7, 2)])
            -> "setHeight"
      [] data.f.type = T_openPopup /\ Parseable(playUrl) -> "open"
      [] OTHER -> "none"

(* C3: after handshake completion a non-ready message from the frame is     *)
(* dispatched to its handler if and only if its nonce equals the session    *)
(* nonce; with any other nonce it is dropped, with no dispatch and no state *)
(* change.                                                                  *)
C3_NonceGate ==
    (/\ FromFrame
     /\ last.pre.state.handshakeComplete
     /\ TypeOf(last.arg.data) # T_ready)
    => /\ NonceOf(last.arg.data) # last.pre.state.nonce => Dropped
       /\ (NonceOf(last.arg.data) = last.pre.state.nonce
           /\ Visible(last.arg.data) # "none")
             => /\ out # <<>>
                /\ \E i \in 1..Len(out) : out[i].k = Visible(last.arg.data)

\* a post-handshake booked message with a foreign nonce was received
C3_Witness ==
    /\ FromFrame
    /\ last.pre.state.handshakeComplete
    /\ TypeOf(last.arg.data) = T_booked
    /\ last.arg.data.f.payload = BookedOk
    /\ NonceOf(last.arg.data) # last.pre.state.nonce
    /\ Dropped

(* C4: a booked message with string bookingId and status, received from the *)
(* frame after the handshake with the session nonce, invokes onBooked       *)
(* exactly once with exactly those two values; before handshake completion  *)
(* it, like every other non-ready frame message, is dropped and invokes     *)
(* no callback.                                                             *)
C4_Booked ==
    /\ (/\ FromFrame
        /\ last.pre.state.handshakeComplete
        /\ TypeOf(last.arg.data) = T_booked
        /\ last.arg.data.f.payload = BookedOk
        /\ NonceOf(last.arg.data) = last.pre.state.nonce)
       => /\ Len(Calls("onBooked")) = 1
          /\ Calls("onBooked")[1].arg = [bookingId |-> Str(<<"b1">>),
                                         status |-> Str(<<"confirmed">>)]
          /\ Len(Effects("callback")) = 1
    /\ (/\ FromFrame
        /\ ~last.pre.state.handshakeComplete
        /\ TypeOf(last.arg.data) # T_ready)
       => Dropped

\* onBooked was invoked for a booked message after the handshake
C4_Witness ==
    /\ FromFrame
    /\ last.pre.state.handshakeComplete
    /\ TypeOf(last.arg.data) = T_booked
    /\ Len(Calls("onBooked")) = 1

\* the init message the frame must get for a ready signal with this nonce
InitFor(nonce) ==
    [type |-> T_init, nonce |-> nonce,
     payload |-> Obj([nonce |-> nonce, locale |-> locale, theme |-> theme])]

\* a ready signal from the frame, received while awaiting ready
ReadyWhileAwaiting ==
    /\ FromFrame
    /\ TypeOf(last.arg.data) = T_ready
    /\ ~last.pre.state.handshakeComplete

(* C5: a valid ready signal with nonce n from the frame, received while the *)
(* bridge awaits ready and the content window is available, posts exactly   *)
(* one init message to the frame with n in the envelope nonce and in        *)
(* payload.nonce (plus the configured locale and theme), invokes onReady    *)
(* exactly once, and resolves the readiness future.                         *)
C5_ReadyScenario ==
    (ReadyWhileAwaiting /\ last.pre.iframe.contentWindow # NoWindow)
    => /\ Len(Posts(T_init)) = 1
       /\ Posts(T_init)[1].to = last.pre.iframe.contentWindow
       /\ LET m == Posts(T_init)[1].msg.f
          IN  [type |-> m.type, nonce |-> m.nonce, payload |-> m.payload]
                  = InitFor(NonceOf(last.arg.data))
       /\ hist.init = 1
       /\ Len(Calls("onReady")) = 1
       /\ hist.onReady = 1
       /\ readyPromise.status = "resolved"

\* destroy() ran in the last step: called directly, or by the consumer in a callback
DestroyRan ==
    \/ last.op = "destroy"
    \/ \E i \in 1..Len(out) : out[i].k = "callback" /\ out[i].react = "destroy"

(* C6: destroy() is idempotent: in every reachable state calling it twice   *)
(* leaves the same state and effects as calling it once, a call on a        *)
(* destroyed bridge does nothing, and over the whole run the listener is    *)
(* removed at most once, destroy requests the tracked popup's close at most *)
(* once, and the readiness future settles at most once.                     *)
C6_DestroyIdempotent ==
    /\ destroy(destroy(Begin)) = destroy(Begin)
    /\ (last.op = "destroy" /\ last.pre.state.destroyed) => Dropped
    /\ hist.removeListener <= 1
    /\ hist.destroyClose <= 1
    /\ hist.settle <= 1
    /\ state.destroyed => hist.removeListener = 1

\* destroy() was called again on a bridge whose first destroy closed a popup
C6_Witness ==
    /\ last.op = "destroy"
    /\ last.pre.state.destroyed
    /\ hist.removeListener = 1
    /\ hist.destroyClose = 1
    /\ hist.settle = 1

\* the bridge's own state: everything but what the user or the page changes
Bridge(S) ==
    [state |-> S.state, popupPollIntervalId |-> S.popupPollIntervalId,
     readyPromise |-> S.readyPromise, listening |-> S.listening,
     height |-> S.iframe.height, timers |-> S.timers, hist |-> S.hist]

(* C7: the destroyed flag only goes from false to true, and a destroyed     *)
(* bridge is inert: every inbound message is dropped, sendConfigUpdate,     *)
(* resize and popup opening do nothing, nothing is posted to the frame and  *)
(* no consumer callback is invoked.                                         *)
C7_DestroyedInert ==
    /\ last.pre.state.destroyed
       => /\ state.destroyed
          /\ out = <<>>
          /\ Bridge(Now) = Bridge(last.pre)
    /\ state.destroyed
       => /\ \A e \in Events, r \in Reactions, o \in OpenResults(Begin) :
                 /\ handleMessage(Begin, e, r, o) = Begin
                 /\ openAuthPopup(Begin, o, r) = Begin
          /\ \A u \in Updates : sendConfigUpdate(Begin, u) = Begin
          /\ \A h \in {Num(0), Rat(7, 2)} : handleResize(Begin, h) = Begin
          /\ sendToIframe(Begin, T_configUpdate, Empty) = Begin

\* sendConfigUpdate was called on a destroyed bridge that had completed its handshake
C7_Witness ==
    /\ last.op = "sendConfigUpdate"
    /\ last.arg.locale # Undefined
    /\ last.pre.state.destroyed
    /\ last.pre.state.handshakeComplete
    /\ last.pre.iframe.contentWindow # NoWindow

(* C8: whenever the bridge is destroyed, no popup poll timer is live, no    *)
(* popup is tracked and the message listener is unregistered, also when     *)
(* destroy() was called from inside a consumer callback.                    *)
C8_DestroyedClean ==
    state.destroyed
    => /\ timers = {}
       /\ popupPollIntervalId = NoTimer
       /\ state.popup = NoWindow
       /\ ~listening

\* destroy() was called inside a callback while a popup was tracked and polled
C8_Witness ==
    /\ state.destroyed
    /\ Received
    /\ Len(Effects("callback")) = 1
    /\ last.pre.state.popup # NoWindow
    /\ last.pre.timers # {}

(* C9: destroy() moves the session to destroyed from any state; a readiness *)
(* future still pending when destroy() is called is rejected with the       *)
(* destroyed-before-ready error, a settled one keeps its outcome, and the   *)
(* future settles at most once over the run.                                *)
C9_DestroyRejectsPending ==
    /\ DestroyRan
       => /\ state.destroyed
          /\ last.pre.readyPromise.status = "pending"
             => readyPromise = [status |-> "rejected",
                                reason |-> "destroyed-before-ready"]
          /\ last.pre.readyPromise.status # "pending"
             => readyPromise = last.pre.readyPromise
    /\ hist.settle = IF readyPromise.status = "pending" THEN 0 ELSE 1

\* destroy() was called while the readiness future was pending
C9_Witness ==
    /\ last.op = "destroy"
    /\ last.pre.readyPromise.status = "pending"
    /\ ~last.pre.state.destroyed
    /\ readyPromise.status = "rejected"

(* C10: a valid ready signal processed while awaiting ready with the        *)
(* frame's content window unavailable fails the handshake: onError is       *)
(* invoked, the readiness future is rejected, no init message is sent,      *)
(* onReady is not invoked, handshakeComplete stays false and no session     *)
(* nonce is captured.                                                       *)
C10_FailedHandshake ==
    (ReadyWhileAwaiting /\ last.pre.iframe.contentWindow = NoWindow)
    => /\ Len(Calls("onError")) = 1
       /\ readyPromise.status = "rejected"
       /\ Effects("post") = <<>>
       /\ Calls("onReady") = <<>>
       /\ ~state.handshakeComplete
       /\ state.nonce = JNull

-----------------------------------------------------------------------------
\* the structurally malformed messages of the inputs
MalformedData == Malformed \cup {BadVersionResult}

\* a message that passed the origin check and the source check
PastSourceCheck ==
    /\ Received
    /\ last.arg.origin = ConfiguredOrigin
    /\ SentByFrame \/ SentByTrackedPopup

(* C11: a message that passes the origin and source checks but is           *)
(* structurally malformed (wrong version, missing or empty requestId or     *)
(* nonce, non-positive timestamp, type without the prefix, null or          *)
(* non-object payload or data) invokes no handler or callback, sends        *)
(* nothing, and leaves nonce, handshakeComplete, destroyed, the popup and   *)
(* the poll handle unchanged.                                               *)
C11_MalformedDropped ==
    (PastSourceCheck /\ last.arg.data \in MalformedData) => Dropped

\* a wrong-version ready signal from the frame, while awaiting ready
C11_Witness ==
    /\ PastSourceCheck
    /\ SentByFrame
    /\ last.pre.iframe.contentWindow # NoWindow
    /\ last.arg.data = Obj([Msg(T_ready, <<"n1">>, Empty).f EXCEPT !.version = Num(2)])
    /\ ~last.pre.state.handshakeComplete
    /\ ~state.handshakeComplete

\* an auth:open-popup request that reached openAuthPopup, and window.open
\* returned null
PopupBlocked ==
    /\ FromFrame
    /\ TypeOf(last.arg.data) = T_openPopup
    /\ last.pre.state.handshakeComplete
    /\ Str(NonceOf(last.arg.data).s) = last.pre.state.nonce
    /\ Len(Effects("open")) = 1
    /\ Effects("open")[1].result = NoWindow

BlockedResult == Obj([resultToken |-> Str(<<>>), error |-> Str(<<"popup_blocked">>)])

(* C12: when an accepted auth:open-popup request meets a refused window     *)
(* creation (the frame's content window being available), the frame is sent *)
(* one auth:popup-result with resultToken "" and error "popup_blocked",     *)
(* onError is invoked exactly once, and afterwards no popup is tracked: the *)
(* popup reference is absent and no poll timer runs, also when a popup was  *)
(* tracked at the time of the request.                                      *)
C12_BlockedPopup ==
    (PopupBlocked /\ last.pre.iframe.contentWindow # NoWindow)
    => /\ Len(Posts(T_popupResult)) = 1
       /\ Posts(T_popupResult)[1].msg.f.payload = BlockedResult
       /\ Len(Calls("onError")) = 1
       /\ state.popup = NoWindow
       /\ popupPollIntervalId = NoTimer
       /\ timers = {}

\* the tracked open popup sent a result with the session nonce and a
\* non-empty string token
PopupResult ==
    /\ PastSourceCheck
    /\ SentByTrackedPopup
    /\ last.arg.data \in ValidData
    /\ TypeOf(last.arg.data) = T_popupResult
    /\ Str(NonceOf(last.arg.data).s) = last.pre.state.nonce
    /\ last.arg.data.f.payload = Obj([resultToken |-> Str(<<"tok_1">>)])

\* the popup is closed and forgotten, its poll cancelled
PopupDropped ==
    /\ Effects("close") = <<[k |-> "close", w |-> last.pre.state.popup,
                             by |-> "handlePopupMessage"]>>
    /\ popups[last.pre.state.popup[2]] = "closed"
    /\ state.popup = NoWindow
    /\ popupPollIntervalId = NoTimer
    /\ timers = {}

\* exactly one auth:popup-result is posted to the frame, with the token and the
\* session nonce
Relayed ==
    /\ Len(Effects("post")) = 1
    /\ Len(Posts(T_popupResult)) = 1
    /\ LET p == Posts(T_popupResult)[1]
       IN  /\ p.to = last.pre.iframe.contentWindow
           /\ p.origin = ConfiguredOrigin
           /\ p.msg.f.payload = Obj([resultToken |-> Str(<<"tok_1">>)])
           /\ p.msg.f.nonce = last.pre.state.nonce

(* C13, as stated: when the tracked open popup sends an auth:popup-result   *)
(* with the session nonce and a non-empty string resultToken t, the frame   *)
(* receives exactly one relayed auth:popup-result with resultToken t and    *)
(* the session nonce, the popup's close is requested, the poll is           *)
(* cancelled and the popup reference is cleared.                            *)
C13_Original == PopupResult => (Relayed /\ PopupDropped)

(* C13, amended: the relay happens while the frame has a content window;    *)
(* with no content window nothing is posted.  In both cases the popup's     *)
(* close is requested, the poll is cancelled and the reference is cleared.  *)
C13_PopupResultRelayed ==
    PopupResult
    => /\ PopupDropped
       /\ Effects("callback") = <<>>
       /\ IF last.pre.iframe.contentWindow # NoWindow
          THEN Relayed
          ELSE Effects("post") = <<>>

\* a result relayed to the frame
C13_Witness ==
    /\ PopupResult
    /\ last.pre.iframe.contentWindow # NoWindow
    /\ Relayed
    /\ last.pre.timers # {}

(* C14: a message from the tracked popup is acted on only if its type is    *)
(* auth:popup-result and the session nonce exists and equals the message    *)
(* nonce; any other popup message (another type: ready, resize, booked,     *)
(* auth:open-popup; or a different nonce) is dropped with no relay, no      *)
(* callback and no change to the session, the popup reference or the poll.  *)
C14_PopupGate ==
    (/\ PastSourceCheck
     /\ SentByTrackedPopup
     /\ last.arg.data \in ValidData
     /\ ~Dropped)
    => /\ TypeOf(last.arg.data) = T_popupResult
       /\ last.pre.state.nonce # JNull
       /\ Str(NonceOf(last.arg.data).s) = last.pre.state.nonce

\* the tracked popup sent a booked event with the session nonce
C14_Witness ==
    /\ PastSourceCheck
    /\ SentByTrackedPopup
    /\ TypeOf(last.arg.data) = T_booked
    /\ Str(NonceOf(last.arg.data).s) = last.pre.state.nonce
    /\ Dropped

\* the sender is the window of the frame
SentByFrameWindow == SentByFrame /\ last.arg.source # NoWindow

(* C15: a message with the expected origin is processed past the source     *)
(* check only if its sender is the frame's content window or the tracked,   *)
(* not closed popup; a message from any other sender, or from a popup that  *)
(* was replaced, closed or cleared after a result, is dropped whatever its  *)
(* structure and nonce.                                                     *)
C15_SourceGate ==
    (/\ Received
     /\ last.arg.origin = ConfiguredOrigin
     /\ ~SentByFrameWindow
     /\ ~SentByTrackedPopup)
    => Dropped

\* an accepted resize message
Resize ==
    /\ FromFrame
    /\ TypeOf(last.arg.data) = T_resize
    /\ last.pre.state.handshakeComplete
    /\ Str(NonceOf(last.arg.data).s) = last.pre.state.nonce

HeightOf(data) == data.f.payload.f.height

(* C16: an accepted resize whose height is negative or not a number leaves  *)
(* the frame's height unchanged; a non-negative numeric height h sets it to *)
(* ceil(h) px (3.5 to 4, 0 to 0); a resize on a destroyed bridge changes    *)
(* nothing.                                                                 *)
C16_Resize ==
    /\ Resize
       => LET h == HeightOf(last.arg.data)
          IN  /\ Effects("callback") = <<>> /\ Effects("post") = <<>>
              /\ state = last.pre.state
              /\ readyPromise = last.pre.readyPromise
              /\ h = Rat(7, 2) => iframe.height = <<4>>
              /\ h = Num(0) => iframe.height = <<0>>
              /\ h \in {Num(-1), NaN, Str(<<"12">>)}
                 => iframe.height = last.pre.iframe.height
              /\ h \in {Num(-1), Str(<<"12">>)} => Dropped
    /\ state.destroyed
       => \A h \in {Rat(7, 2), Num(0), Num(-1), NaN} :
              handleResize(Begin, h) = Begin

\* a negative height arrived after the frame had been sized
C16_Witness ==
    /\ Resize
    /\ HeightOf(last.arg.data) = Num(-1)
    /\ last.pre.iframe.height = <<4>>
    /\ iframe.height = <<4>>

(* C17: a ready signal received after the handshake completed is ignored    *)
(* without error: no second init message, no onReady, no onError, the       *)
(* readiness outcome is unchanged and the nonce is not replaced, whatever   *)
(* nonce the later signal carries.                                          *)
C17_LateReadyIgnored ==
    (FromFrame /\ TypeOf(last.arg.data) = T_ready /\ last.pre.state.handshakeComplete)
    => /\ Posts(T_init) = <<>>
       /\ Effects("callback") = <<>>
       /\ readyPromise = last.pre.readyPromise
       /\ state.nonce = last.pre.state.nonce
       /\ Dropped

\* a late ready signal after a resolved handshake
C17_Witness ==
    /\ FromFrame
    /\ TypeOf(last.arg.data) = T_ready
    /\ last.pre.state.handshakeComplete
    /\ last.pre.readyPromise.status = "resolved"
    /\ hist.init = 1
    /\ hist.onReady = 1
    /\ Dropped

\* what a bridge owns: the closure state of S, not the page's windows
Acted(S, pre, effects) == effects # <<>> \/ Bridge(S) # Bridge(pre)

\* the window that posted the message is the frame or the tracked popup of the
\* bridge that was in state pre
OwnSender(pre, frame) ==
    \/ last.arg.sender = frame
    \/ last.arg.sender[1] = "popup" /\ last.arg.sender = pre.state.popup

(* C18: with two live bridges on one page (same or different expected       *)
(* origin, distinct frames), a message delivered to the window is acted on  *)
(* only by the bridge whose frame or tracked popup sent it: a message from  *)
(* one bridge's frame or popup never changes the other's nonce, handshake   *)
(* flag, popup or readiness future and never invokes its callbacks; and     *)
(* destroying one bridge leaves the other's listener and state intact.      *)
C18_Isolation ==
    /\ last.op = "message"
       => /\ Acted(Now, last.pre, out) => OwnSender(last.pre, FrameWindow)
          /\ Acted(other, last.preOther, other.out)
             => OwnSender(last.preOther, FrameWindow2)
    /\ (last.op = "destroy" /\ last.arg.bridge = "A")
       => ~Acted(other, last.preOther, other.out)
    /\ (last.op = "destroy" /\ last.arg.bridge = "B")
       => ~Acted(Now, last.pre, out)

\* the handshake failed in this step, during init(), for a missing content window
HandshakeFailedInInit ==
    /\ last.op = "message"
    /\ last.pre.init.pc = "waiting"
    /\ last.pre.readyPromise.status = "pending"
    /\ readyPromise = [status |-> "rejected", reason |-> "contentWindow-not-available"]

(* C19: a protocol fault is surfaced exactly once through onError: for a    *)
(* handshake that fails during init() because the content window is        *)
(* missing, and for a refused popup creation, onError is invoked exactly    *)
(* one time per fault, the bridge's own call and init()'s failure handling  *)
(* counted together.                                                        *)
C19_FaultOnce ==
    /\ HandshakeFailedInInit => Len(Calls("onError")) = 1
    /\ (last.op = "message" /\ Len(Effects("open")) = 1
        /\ Effects("open")[1].result = NoWindow)
       => Len(Calls("onError")) = 1

(* C20: under fair timers, every call of init() eventually settles; it      *)
(* resolves with an instance only after the handshake completed, and        *)
(* otherwise rejects with onError invoked (invalid configuration, session   *)
(* failure or timeout, handshake failure, readiness timeout); it never      *)
(* stays pending forever.                                                   *)
C20_InitSettles ==
    /\ <>(init.pc \in {"resolved", "rejected"})
    /\ [](init.pc = "resolved" => state.handshakeComplete)
    /\ [](init.pc = "rejected" => init.reported)

\* the position of an effect of kind `kind` in the effect log, 0 if there is none
IndexOf(kind) ==
    IF \E i \in DOMAIN out : out[i].k = kind
    THEN CHOOSE i \in DOMAIN out : out[i].k = kind /\ \A j \in 1..(i - 1) : out[j].k # kind
    ELSE 0

\* the readiness wait of init() failed in this step
WaitFailed == last.pre.init.pc = "waiting" /\ init.pc = "rejected"

(* C21: when the readiness wait of init() fails (readiness timeout or       *)
(* handshake failure), the bridge is destroyed and the iframe removed       *)
(* before init() rejects (and before onError is told), the ready-timeout    *)
(* timer is cleared on every path out of the wait, and a ready signal that  *)
(* arrives after the failure has no effect: no init message, no onReady.    *)
C21_WaitFailure ==
    /\ WaitFailed
       => /\ state.destroyed /\ ~listening
          /\ iframe.contentWindow = NoWindow
          /\ 0 < IndexOf("removeEventListener")
          /\ IndexOf("removeEventListener") < IndexOf("removeIframe")
          /\ \E i \in DOMAIN out :
                 /\ IndexOf("removeIframe") < i
                 /\ out[i].k = "callback" /\ out[i].name = "onError"
                 /\ out[i].arg = init.error
    /\ init.pc \in {"resolved", "rejected"} => ~init.readyTimeoutId
    /\ (last.op = "message" /\ last.pre.init.pc = "rejected")
       => Dropped /\ Posts(T_init) = <<>> /\ Calls("onReady") = <<>>

\* a ready signal from the frame's origin after the readiness timeout
C21_Witness ==
    /\ last.op = "message"
    /\ last.pre.init.pc = "rejected"
    /\ init.error = "did not become ready"
    /\ last.arg.origin = PlayOrigin
    /\ last.arg.data = Msg(T_ready, <<"n1">>, Empty)
    /\ ~state.handshakeComplete

\* instance.setConfig was called
SetConfigCalled == last.op = "instanceSetConfig"

\* the update as the payload of the message: the fields that were given
GivenFields(update) ==
    Obj([k \in {f \in {"locale", "theme"} : update[f] # Undefined} |-> update[k]])

\* exactly one config:update is posted to the frame, with the session nonce
ConfigPosted ==
    /\ Len(Effects("post")) = 1
    /\ Len(Posts(T_configUpdate)) = 1
    /\ LET p == Posts(T_configUpdate)[1]
       IN  /\ p.to = last.pre.iframe.contentWindow
           /\ p.msg.f.nonce = last.pre.state.nonce
           /\ p.msg.f.payload = GivenFields(last.arg)

\* instance.destroy(): idempotent, the bridge and the iframe destroyed once
InstanceDestroyOnce ==
    last.op = "instanceDestroy"
    => /\ init.destroyed /\ state.destroyed /\ ~listening
       /\ iframe.contentWindow = NoWindow
       /\ IF last.pre.init.destroyed
          THEN Dropped
          ELSE /\ Len(Effects("removeIframe")) = 1
               /\ Len(Effects("removeEventListener")) = 1
       /\ hist.removeListener = 1

(* C22, as stated: on the instance returned by init(), destroy() is         *)
(* idempotent and destroys the bridge and the iframe exactly once;          *)
(* setConfig() after destroy() raises an error and sends nothing;           *)
(* setConfig() before destroy() sends one config:update message to the      *)
(* frame carrying the session nonce.                                        *)
C22_Original ==
    /\ InstanceDestroyOnce
    /\ (SetConfigCalled /\ last.pre.init.destroyed)
       => Len(Effects("throw")) = 1 /\ Effects("post") = <<>>
    /\ (SetConfigCalled /\ ~last.pre.init.destroyed) => ConfigPosted

(* C22, amended: setConfig() before destroy() sends the one config:update   *)
(* message while the frame has a content window, and nothing when it has    *)
(* none; the rest as stated.                                                *)
C22_Instance ==
    /\ InstanceDestroyOnce
    /\ (SetConfigCalled /\ last.pre.init.destroyed)
       => /\ Len(Effects("throw")) = 1 /\ Effects("post") = <<>>
          /\ Now = last.pre
    /\ (SetConfigCalled /\ ~last.pre.init.destroyed)
       => /\ Effects("throw") = <<>>
          /\ Now = last.pre
          /\ IF last.pre.iframe.contentWindow # NoWindow
             THEN ConfigPosted
             ELSE Effects("post") = <<>>

\* setConfig() after destroy() after a setConfig() that was sent
C22_Witness ==
    /\ SetConfigCalled
    /\ last.pre.init.destroyed
    /\ Len(Effects("throw")) = 1
    /\ hist.removeListener = 1

(* About C23: init()'s destroyed flag is set by instance.destroy() alone,   *)
(* and the instance exists only once init() has returned.  So the flag is   *)
(* false during the session call and the readiness wait, and no init()      *)
(* call rejects with the 'destroyed during initialization' error.           *)
DestroyedOnlyAfterReturn ==
    /\ init.destroyed => init.pc = "resolved"
    /\ init.error # "destroyed during initialization"

\* an auth:open-popup request that reached openAuthPopup
OpenRequested ==
    /\ FromFrame
    /\ TypeOf(last.arg.data) = T_openPopup
    /\ last.pre.state.handshakeComplete
    /\ Str(NonceOf(last.arg.data).s) = last.pre.state.nonce

\* the popup windows that are open
OpenPopups == { k \in PopupIds : popups[k] = "open" }

(* C24: at most one popup opened by the bridge is open at any time; when an *)
(* accepted open-popup request arrives while a tracked popup is open, that  *)
(* popup's close is requested and its poll cancelled before the new window  *)
(* is requested; after a successful open the tracked reference and the one  *)
(* live poll timer belong to the new popup.                                 *)
C24_OnePopup ==
    /\ Cardinality(OpenPopups) <= 1
    /\ Cardinality(timers) <= 1
    /\ (OpenRequested /\ SentByFrameWindow
        /\ last.pre.state.popup # NoWindow
        /\ last.pre.popups[last.pre.state.popup[2]] = "open")
       => /\ out[1] = [k |-> "close", w |-> last.pre.state.popup,
                       by |-> "openAuthPopup"]
          /\ popups[last.pre.state.popup[2]] = "closed"
          /\ TimerId(last.pre.state.popup[2]) \notin timers
          /\ Effects("open") # <<>> => IndexOf("close") < IndexOf("open")
    /\ (OpenRequested /\ Effects("open") # <<>>
        /\ Effects("open")[1].result # NoWindow)
       => LET new == Effects("open")[1].result
          IN  /\ state.popup = new
              /\ popups[new[2]] = "open"
              /\ OpenPopups = {new[2]}
              /\ popupPollIntervalId = TimerId(new[2])
              /\ timers = {TimerId(new[2])}

\* a tracked open popup was replaced by a new one
C24_Witness ==
    /\ OpenRequested
    /\ last.pre.state.popup = PopupWindow(1)
    /\ last.pre.popups[1] = "open"
    /\ state.popup = PopupWindow(2)
    /\ popups = <<"closed", "open">>

\* the tracked popup k is closed and its poll is still live
ClosedTracked(k) ==
    /\ state.popup = PopupWindow(k)
    /\ popups[k] = "closed"
    /\ TimerId(k) \in timers

\* popup k is forgotten: no reference, no poll
Forgotten(k) ==
    /\ state.popup # PopupWindow(k)
    /\ TimerId(k) \notin timers
    /\ popupPollIntervalId # TimerId(k)

(* C25: if the user closes the tracked popup without it sending a result,   *)
(* then, the poll timer firing fairly, the bridge eventually cancels the    *)
(* poll and drops the popup reference; once the poll has seen the closure   *)
(* no poll timer is live, and a message from a closed popup is never        *)
(* accepted.                                                                *)
C25_ClosedPopupForgotten ==
    /\ \A k \in PopupIds : ClosedTracked(k) ~> Forgotten(k)
    /\ [](last.op = "poll" /\ last.pre.popups[last.arg.timer[2]] = "closed"
          => timers = {} /\ popupPollIntervalId = NoTimer /\ state.popup = NoWindow)
    /\ [](Received /\ last.arg.source[1] = "popup"
          /\ last.pre.popups[last.arg.source[2]] # "open"
          => Dropped)

\* the tracked open popup sent a result with the session nonce
PopupResultAccepted ==
    /\ PastSourceCheck
    /\ SentByTrackedPopup
    /\ last.arg.data \in ValidData
    /\ TypeOf(last.arg.data) = T_popupResult
    /\ Str(NonceOf(last.arg.data).s) = last.pre.state.nonce

TokenOf(data) == Get(data.f.payload, "resultToken")

(* C26: for every accepted popup result, whatever its resultToken, the poll *)
(* is cancelled, the tracked popup's close is requested and the reference   *)
(* is dropped; when the resultToken is an empty string or not a string,     *)
(* nothing is relayed to the frame and no consumer callback is invoked.     *)
C26_AnyResultClosesPopup ==
    PopupResultAccepted
    => /\ PopupDropped
       /\ Effects("callback") = <<>>
       /\ TokenOf(last.arg.data) \in {Str(<<>>), Num(3)}
          => Effects("post") = <<>>

\* a result with an empty resultToken, the frame being there to relay to
C26_Witness ==
    /\ PopupResultAccepted
    /\ TokenOf(last.arg.data) = Str(<<>>)
    /\ last.pre.iframe.contentWindow # NoWindow
    /\ last.pre.timers # {}
    /\ state.popup = NoWindow

\* bridge.sendConfigUpdate was called
SendCalled == last.op = "sendConfigUpdate"

\* the bridge was live and past the handshake when the call was made
LiveAndReady == ~last.pre.state.destroyed /\ last.pre.state.handshakeComplete

(* C27, as stated: sendConfigUpdate sends nothing when called before the    *)
(* handshake completed or after destroy; called after the handshake on a    *)
(* live bridge it posts exactly one config:update message whose payload     *)
(* has exactly those of locale and theme that were given; it changes no     *)
(* session state.                                                           *)
C27_Original ==
    SendCalled
    => /\ Now = last.pre
       /\ IF LiveAndReady THEN ConfigPosted ELSE Effects("post") = <<>>

(* C27, amended: the one message is posted if the frame has a content       *)
(* window; with no content window nothing is posted.                        *)
C27_ConfigUpdate ==
    SendCalled
    => /\ Now = last.pre
       /\ Effects("callback") = <<>>
       /\ IF LiveAndReady /\ last.pre.iframe.contentWindow # NoWindow
          THEN ConfigPosted
          ELSE out = <<>>

\* an update with only a locale, posted
C27_Witness ==
    /\ SendCalled
    /\ LiveAndReady
    /\ last.arg = [locale |-> Str(<<"en">>), theme |-> Undefined]
    /\ ConfigPosted
    /\ Posts(T_configUpdate)[1].msg.f.payload = Obj([locale |-> Str(<<"en">>)])

\* a non-null record
IsRecord(v) == v.t = "object"

NonEmptyString(v) == v.t = "string" /\ v.s # <<>>

\* a number greater than zero (NaN is not)
PositiveNumber(v) == v.t = "number" /\ v.den > 0 /\ v.num > 0

\* the accepted inputs, in the words of the claim
WellFormed(raw) ==
    /\ IsRecord(raw)
    /\ Get(raw, "type").t = "string"
    /\ Len(Get(raw, "type").s) >= 1
    /\ Get(raw, "type").s[1] = "venyu:"
    /\ Get(raw, "version") = Num(1)
    /\ NonEmptyString(Get(raw, "requestId"))
    /\ NonEmptyString(Get(raw, "nonce"))
    /\ PositiveNumber(Get(raw, "timestamp"))
    /\ IsRecord(Get(raw, "payload"))

(* C28: validate(raw) returns the message exactly when raw is a non-null    *)
(* record whose type is a string with the reserved prefix, whose version    *)
(* equals the protocol version, whose requestId and nonce are non-empty     *)
(* strings, whose timestamp is a positive number and whose payload is a     *)
(* non-null record; for every other input it returns the rejection          *)
(* sentinel (null); the payload's contents play no part.                    *)
C28_ValidateExact ==
    last.op = "validate"
    => /\ WellFormed(other.raw) => out[1].value = other.raw
       /\ ~WellFormed(other.raw) => out[1].value = JNull

(* C29: in every reachable state a popup reference is tracked if and only   *)
(* if a popup poll timer is live: no sequence of operations (open, replace, *)
(* blocked open, result, user closure, destroy) leaves a tracked popup      *)
(* without a poll or a poll without a tracked popup.                        *)
C29_PopupIffPoll ==
    /\ state.popup # NoWindow <=> popupPollIntervalId # NoTimer
    /\ state.popup # NoWindow <=> timers # {}

(* C30: whenever onReady has been invoked for a bridge, the bridge's        *)
(* readiness future ends up resolved and is never rejected, also when the   *)
(* consumer calls destroy() from inside the onReady callback.               *)
C30_ReadyResolved ==
    hist.onReady > 0 => readyPromise = [status |-> "resolved", reason |-> "none"]

-----------------------------------------------------------------------------
\* the last step produced an effect that only a frame message can drive
FrameDriven ==
    \/ Calls("onBooked") # <<>>
    \/ Calls("onAuthFallbackRequired") # <<>>
    \/ Effects("setHeight") # <<>>
    \/ Effects("scrollIntoView") # <<>>
    \/ Effects("open") # <<>>

\* before the last step the handshake had succeeded
HandshakeSucceeded ==
    /\ last.pre.hist.onReady >= 1
    /\ last.pre.readyPromise = [status |-> "resolved", reason |-> "none"]

(* C31: no frame-driven effect happens on a bridge whose handshake did not  *)
(* succeed: onBooked and onAuthFallbackRequired are invoked, the frame is   *)
(* resized or scrolled, and a popup is opened only in states where onReady  *)
(* was invoked earlier and the readiness future resolved; in particular     *)
(* none of them happens after a handshake that failed for a missing         *)
(* content window.                                                          *)
C31_HandshakeGate ==
    FrameDriven => HandshakeSucceeded

\* lemma: the frame-driven effects without a successful handshake are those
\* of messages without a sender, after the handshake failed
C31_OnlyAfterFailedHandshake ==
    (FrameDriven /\ ~HandshakeSucceeded)
    => /\ Received
       /\ last.arg.source = NoWindow
       /\ last.pre.iframe.contentWindow = NoWindow
       /\ last.pre.readyPromise.status = "rejected"
       /\ last.pre.hist.onReady = 0

(* C32: in every reachable state handshakeComplete is true if and only if   *)
(* the session nonce is set: no path leaves a nonce captured while the      *)
(* handshake flag is false, or the flag true without a nonce.               *)
C32_FlagIffNonce ==
    state.handshakeComplete <=> state.nonce # JNull

\* the handshake failed for a missing content window: flag and nonce are both set
C32_Witness ==
    /\ ReadyWhileAwaiting
    /\ last.pre.iframe.contentWindow = NoWindow
    /\ ~last.pre.state.handshakeComplete
    /\ last.pre.state.nonce = JNull
    /\ state.handshakeComplete
    /\ state.nonce = NonceOf(last.arg.data)

\* the message types the bridge sends
SentTypes == {T_init, T_configUpdate, T_popupResult}

\* the messages posted by the last step
Posted == Effects("post")

(* C33: every message the bridge posts to the frame (init, config:update,   *)
(* relayed or synthetic auth:popup-result) carries the current protocol     *)
(* version and the session nonce in its envelope and is addressed to the    *)
(* frame's content window with the expected origin; no message is posted    *)
(* before a session nonce has been captured.                                *)
C33_PostedEnvelope ==
    /\ \A i \in 1..Len(Posted) :
          /\ TypeOf(Posted[i].msg) \in SentTypes
          /\ Posted[i].msg.f.version = Num(PROTOCOL_VERSION)
          /\ Posted[i].msg.f.nonce = state.nonce
          /\ Posted[i].msg.f.nonce.t = "string"
          /\ Posted[i].origin = ConfiguredOrigin
          /\ Posted[i].to = FrameWindow
          /\ Posted[i].to = last.pre.iframe.contentWindow
    /\ state.nonce = JNull => Posted = <<>> /\ hist.init = 0

\* the synthetic popup result of a blocked open, in a session with nonce n2
C33_Witness ==
    /\ Len(Posts(T_popupResult)) = 1
    /\ Effects("open") # <<>>
    /\ PopupBlocked
    /\ state.nonce = Str(<<"n2">>)
    /\ last.pre.state.nonce = state.nonce

\* the last step was a message event whose sender is popup window k
FromPopupWindow(k) == Received /\ last.arg.source = PopupWindow(k)

\* before the last step popup window k was the tracked popup, and open
TrackedOpen(k) ==
    /\ last.pre.state.popup = PopupWindow(k)
    /\ last.pre.popups[k] = "open"

(* C34: for each successfully opened popup at most one auth result is       *)
(* relayed to the frame: a popup's message is relayed only while that       *)
(* window is the tracked, open popup, and the step that accepts it posts    *)
(* one message, closes the window and clears the reference; a window once   *)
(* closed stays closed, and any further message from it (also with the      *)
(* right type, nonce and a non-empty token) is dropped at the source check, *)
(* also after a new popup was opened.                                       *)
C34_OneResultPerPopup ==
    \A k \in PopupIds :
        /\ (FromPopupWindow(k) /\ Effects("post") # <<>>)
           => /\ TrackedOpen(k)
              /\ Len(Effects("post")) = 1
              /\ popups[k] = "closed"
              /\ state.popup = NoWindow
        /\ (FromPopupWindow(k) /\ TrackedOpen(k) /\ PopupResultAccepted)
           => popups[k] = "closed" /\ state.popup = NoWindow
        /\ last.pre.popups[k] = "closed" => popups[k] = "closed"
        /\ (FromPopupWindow(k) /\ ~TrackedOpen(k)) => Dropped

\* a further result from the first popup, by now closed, arrives while a
\* second popup is tracked: it has the session nonce and a token
C34_Witness ==
    /\ FromPopupWindow(1)
    /\ last.arg.origin = ConfiguredOrigin
    /\ TypeOf(last.arg.data) = T_popupResult
    /\ Str(NonceOf(last.arg.data).s) = last.pre.state.nonce
    /\ TokenOf(last.arg.data) = Str(<<"tok_1">>)
    /\ last.pre.popups[1] = "closed"
    /\ last.pre.state.popup = PopupWindow(2)
    /\ last.pre.popups[2] = "open"
    /\ Dropped

\* the last step was a message event with the expected origin and no sender
NullSender ==
    /\ Received
    /\ last.arg.origin = ConfiguredOrigin
    /\ last.arg.source = NoWindow

(* C35: a message with the expected origin but an absent (null) sender is   *)
(* never classified as coming from the frame, also while the frame has no   *)
(* content window; such a message never starts a handshake, is never        *)
(* dispatched and never changes session state.                              *)
C35_NullSender ==
    NullSender
    => /\ ~isFromIframe(last.pre, last.arg)
       /\ out = <<>>
       /\ state = last.pre.state
       /\ readyPromise = last.pre.readyPromise
       /\ Dropped

\* lemma: while the frame has a content window a message without a sender is
\* not classified as the frame's and is dropped
C35_DroppedWhileAttached ==
    (NullSender /\ last.pre.iframe.contentWindow # NoWindow)
    => ~isFromIframe(last.pre, last.arg) /\ Dropped

====
